---- MODULE Spec2Model ----
(***************************************************************************)
(* FastFoodDeals (src/main.py): the brand grouping of a report run, the    *)
(* poster pagination loop, the delivery fan-out, the shared scheduler and  *)
(* the timer-triggered report run.                                         *)
(*                                                                         *)
(* Strings whose characters matter (brands, group ids, schedule times) are *)
(* sequences of one-character strings, so that strip(), split() and int()  *)
(* are computed, not assumed.                                              *)
(***************************************************************************)
EXTENDS Integers, Sequences, FiniteSets, TLC

VARIABLES
    \* ---- configuration of the plugin instance (FastFoodDeals.__init__)
    target_groups,      \* self.target_groups : list of group ids
    target_brands,      \* self.target_brands : list of brand names
    \* ---- grouping step (cmd_fastfood_report / _run_daily_report)
    deals,              \* the fetched deal list
    brand_map,          \* dict brand -> deals, in insertion order
    ordered_brands,     \* the brand order the posters are rendered in
    gpc,                \* position of the grouping step
    \* ---- one call of _generate_poster_sync
    poster_deals,       \* its `deals` argument
    y,                  \* top of the next card
    idx,                \* number of loop iterations started (enumerate index)
    cards,              \* the cards drawn on the canvas, in drawing order
    fetched_urls,       \* the image URLs httpx.get was called with
    ppc,                \* position: "start", "loop", "footer", "saved", "raised", "aborted"
    \* ---- delivery fan-out (_send_text_to_all / _send_image_to_all)
    call,               \* the send call in progress, or NoCall
    sent,               \* every context.send_message call made, in order
    exc,                \* the exception propagating to the caller, or "none"
    \* ---- one timer-triggered run (_scheduled_task_entry / _run_daily_report)
    entry,              \* _scheduled_task_entry: "idle", "running", "returned", "raised"
    pc,                 \* position of _run_daily_report
    fetched,            \* fetch_today_deals: "no" (not called), "raised" or "returned"
    bi,                 \* index of the render loop in ordered_brands
    any_success,
    posters_to_send,
    renders,            \* every generate_poster call made, in order
    pi,                 \* index of the send loop in posters_to_send
    \* ---- the shared scheduler and the plugin instances of the process
    _scheduler,         \* the module global: 0 is None, n the n-th scheduler object
    schedulers,         \* number of AsyncIOScheduler objects created and started
    jobs,               \* the jobs held by the scheduler objects, in insertion order
    instances,          \* plugin instance at each object address
    \* ---- the poster directory data/fastfood_deals and a command-triggered run
    files,              \* out_path -> what the file holds
    cmd,                \* cmd_fastfood_report: its position, locals and yielded results
    \* ---- one call of fetch_today_deals
    source,             \* its arguments data_source, rss_urls, api_url
    fetching            \* its position, the fetcher it used and its result

groupVars == <<deals, brand_map, ordered_brands, gpc>>
configVars == <<target_groups, target_brands>>
posterVars == <<poster_deals, y, idx, cards, fetched_urls, ppc>>
sendVars == <<call, sent, exc>>
runVars == <<entry, pc, fetched, bi, any_success, posters_to_send, renders, pi>>
schedVars == <<_scheduler, schedulers, jobs, instances>>
fetchVars == <<source, fetching>>

-----------------------------------------------------------------------------
(* Bounds of the model.                                                    *)

MaxDeals == 3       \* longest deal list of the grouping step
MaxPreferred == 2   \* longest target_brands list of the grouping step
MaxPosterDeals == 6 \* longest deal list handed to one poster
MaxGroups == 2      \* longest target_groups list of a send call
MaxRunGroups == 2   \* longest target_groups list of a report run
MaxRunDeals == 2    \* longest deal list a report run fetches
MaxInstances == 2   \* object addresses a plugin instance can live at

-----------------------------------------------------------------------------
(* Python string helpers.                                                  *)

Whitespace == {" "}

RECURSIVE lstrip(_)
lstrip(s) ==
    IF s = <<>> THEN <<>>
    ELSE IF Head(s) \in Whitespace THEN lstrip(Tail(s)) ELSE s

RECURSIVE rstrip(_)
rstrip(s) ==
    IF s = <<>> THEN <<>>
    ELSE IF s[Len(s)] \in Whitespace THEN rstrip(SubSeq(s, 1, Len(s) - 1)) ELSE s

\* str.strip()
strip(s) == rstrip(lstrip(s))

\* All sequences over S of length 0..n.
SeqUpTo(S, n) == UNION {[1..k -> S] : k \in 0..n}

-----------------------------------------------------------------------------
(* The grouping step.                                                      *)

\* "其他品牌": the default of deal.get("brand", ...) and the fallback of `or`.
OTHER_BRAND == <<"QiTaPinPai">>

\* A target_brands member that is a JSON list: it has no hash, so `b in brand_map`
\* raises TypeError.
UNHASHABLE == <<"[]">>

\* deal.get("brand", "其他品牌")
DealBrand(deal) == IF "brand" \in DOMAIN deal THEN deal.brand ELSE OTHER_BRAND

\* A slip the claims must notice: an empty brand is kept as the key.
BrandKeyNoFallback(deal) == strip(DealBrand(deal))

\* str(deal.get("brand", "其他品牌")).strip() or "其他品牌"
BrandKey(deal) ==
    LET b == strip(DealBrand(deal)) IN IF b = <<>> THEN OTHER_BRAND ELSE b

\* The keys of an insertion-ordered dict, in order.
KeySet(bm) == {bm[i].brand : i \in 1..Len(bm)}

\* brand_map.setdefault(brand, []).append(i): i is the deal's position in `deals`.
SetDefaultAppend(bm, brand, i) ==
    IF brand \in KeySet(bm)
    THEN [k \in 1..Len(bm) |->
            IF bm[k].brand = brand
            THEN [bm[k] EXCEPT !.deals = Append(@, i)]
            ELSE bm[k]]
    ELSE Append(bm, [brand |-> brand, deals |-> <<i>>])

\* for deal in deals: brand = ...; brand_map.setdefault(brand, []).append(deal)
RECURSIVE GroupLoop(_, _, _)
GroupLoop(ds, i, bm) ==
    IF i > Len(ds) THEN bm
    ELSE GroupLoop(ds, i + 1, SetDefaultAppend(bm, BrandKey(ds[i]), i))

GroupByBrand(ds) == GroupLoop(ds, 1, <<>>)

\* for b in self.target_brands: if b in brand_map: ordered_brands.append(b)
RECURSIVE PreferredLoop(_, _, _, _)
PreferredLoop(tb, i, bm, ob) ==
    IF i > Len(tb) THEN ob
    ELSE PreferredLoop(tb, i + 1, bm,
                       IF tb[i] \in KeySet(bm) THEN Append(ob, tb[i]) ELSE ob)

\* for b in brand_map: if b not in ordered_brands: ordered_brands.append(b)
RECURSIVE RemainingLoop(_, _, _)
RemainingLoop(bm, i, ob) ==
    IF i > Len(bm) THEN ob
    ELSE RemainingLoop(bm, i + 1,
                       IF bm[i].brand \in {ob[k] : k \in 1..Len(ob)}
                       THEN ob ELSE Append(ob, bm[i].brand))

\* A slip the claims must notice: the remaining brands are put in front.
OrderBrandsRemainingFirst(tb, bm) ==
    LET rest == RemainingLoop(bm, 1, PreferredLoop(tb, 1, bm, <<>>))
        pref == PreferredLoop(tb, 1, bm, <<>>)
    IN  SubSeq(rest, Len(pref) + 1, Len(rest)) \o pref

OrderBrands(tb, bm) == RemainingLoop(bm, 1, PreferredLoop(tb, 1, bm, <<>>))

\* `b in brand_map` hashes b: an unhashable member of target_brands raises.
OrderingRaises(tb) == \E i \in 1..Len(tb) : tb[i] = UNHASHABLE

\* brand_map.get(brand)
BucketOf(bm, brand) ==
    IF brand \in KeySet(bm)
    THEN (CHOOSE k \in 1..Len(bm) : bm[k].brand = brand)
    ELSE 0

-----------------------------------------------------------------------------
(* _generate_poster_sync: the pagination loop and the per-card image.      *)

height == 1920          \* width, height = 1080, 1920
header_height == 260
content_top == 40       \* y = header_height + 40
card_height == 260
card_gap == 30
overflow_margin == 40   \* if y + card_height + 40 > height: break

\* A URL is a sequence of pieces; the first piece is its scheme.
\* img_url.startswith("http")
StartsWithHttp(url) == url # <<>> /\ url[1] \in {"http://", "https://"}

\* "example.com" in img_url or "example.org" in img_url
IsPlaceholderUrl(url) ==
    \E n \in 1..Len(url) : url[n] \in {"example.com", "example.org"}

\* str(deal.get("main_image_url", "")).strip()
ImageUrl(deal) ==
    IF "main_image_url" \in DOMAIN deal THEN strip(deal.main_image_url) ELSE <<>>

\* if img_url.startswith("http") and not is_placeholder
WantsFetch(deal) == StartsWithHttp(ImageUrl(deal)) /\ ~IsPlaceholderUrl(ImageUrl(deal))

\* brand = str(deal.get("brand", "")).strip(); brand[:2] if brand else "快餐"
BrandShort(deal) ==
    LET brand == IF "brand" \in DOMAIN deal THEN strip(deal.brand) ELSE <<>>
    IN  IF brand # <<>> THEN SubSeq(brand, 1, IF Len(brand) < 2 THEN Len(brand) ELSE 2)
        ELSE <<"KuaiCan">>

\* The outcomes of httpx.get + raise_for_status + Image.open + paste.
FetchOutcomes == {"pasted", "http_error", "timeout", "undecodable"}

\* A slip the claims must notice: only the errors of httpx are handled.
HttpxErrorsOnly(outcome) == outcome \in {"http_error", "timeout"}

\* line 557: except Exception, around the fetch, the decoding and the paste
ImageHandler(outcome) == outcome \in {"http_error", "timeout", "undecodable"}

\* A slip the claims must notice: the card's own height is left out of the test.
PageIsFullNoCardHeight(top) == top + overflow_margin > height

\* if y + card_height + 40 > height
PageIsFull(top) == top + card_height + overflow_margin > height

PosterIdle ==
    /\ poster_deals = <<>>
    /\ y = 0
    /\ idx = 0
    /\ cards = <<>>
    /\ fetched_urls = <<>>
    /\ ppc = "idle"

\* lines 437-488: canvas, header; an empty deal list raises ValueError.
PosterBegin ==
    /\ ppc = "start"
    /\ IF poster_deals = <<>>
       THEN /\ ppc' = "raised"
            /\ UNCHANGED y
       ELSE /\ ppc' = "loop"
            /\ y' = header_height + content_top
    /\ UNCHANGED <<poster_deals, idx, cards, fetched_urls>>

\* lines 493-653: one iteration that draws a card. `outcome` is what the remote
\* image fetch does when one is made.
DrawCard(outcome) ==
    /\ ppc = "loop"
    /\ idx < Len(poster_deals)
    /\ ~PageIsFull(y)
    /\ LET deal == poster_deals[idx + 1]
           card_top == y
           card_bottom == y + card_height
           pasted_image == WantsFetch(deal) /\ outcome = "pasted"
           caught == ~WantsFetch(deal) \/ outcome = "pasted" \/ ImageHandler(outcome)
       IN  /\ fetched_urls' = IF WantsFetch(deal)
                              THEN Append(fetched_urls, ImageUrl(deal))
                              ELSE fetched_urls
           /\ IF caught
              THEN /\ cards' = Append(cards,
                         [deal |-> idx + 1, top |-> card_top, bottom |-> card_bottom,
                          slot |-> IF pasted_image THEN <<"image">> ELSE BrandShort(deal)])
                   /\ y' = card_bottom + card_gap
                   /\ UNCHANGED ppc
              ELSE \* the error leaves _generate_poster_sync
                   /\ ppc' = "aborted"
                   /\ UNCHANGED <<cards, y>>
    /\ idx' = idx + 1
    /\ UNCHANGED poster_deals

\* lines 493-496: the loop ends, by the break or at the end of the list.
LoopEnd ==
    /\ ppc = "loop"
    /\ idx = Len(poster_deals) \/ PageIsFull(y)
    /\ ppc' = "footer"
    /\ UNCHANGED <<poster_deals, y, idx, cards, fetched_urls>>

\* lines 655-675: footer, then image.save, which may raise (OSError).
SavePoster(ok) ==
    /\ ppc = "footer"
    /\ ppc' = IF ok THEN "saved" ELSE "raised"
    /\ UNCHANGED <<poster_deals, y, idx, cards, fetched_urls>>

PosterBrands == { <<"k", "f", "c">>, <<" ">> }
PosterDealsOf(b) ==
    {[title |-> "t", brand |-> b, main_image_url |-> u] : u \in
         { <<>>, <<"https://", "example.com", "/menu_0.jpg">>, <<" ", "http://", "cdn", "/a.jpg">> }}

PosterNext ==
    \/ PosterBegin /\ UNCHANGED <<configVars, groupVars, sendVars, runVars, schedVars, files, cmd, fetchVars>>
    \/ (\E o \in FetchOutcomes : DrawCard(o)) /\ UNCHANGED <<configVars, groupVars, sendVars, runVars, schedVars, files, cmd, fetchVars>>
    \/ LoopEnd /\ UNCHANGED <<configVars, groupVars, sendVars, runVars, schedVars, files, cmd, fetchVars>>
    \/ (\E ok \in BOOLEAN : SavePoster(ok)) /\ UNCHANGED <<configVars, groupVars, sendVars, runVars, schedVars, files, cmd, fetchVars>>

-----------------------------------------------------------------------------
(* Delivery fan-out.                                                       *)

\* Python values that are a str or None. A str is a sequence of pieces.
PyNone == [t |-> "None"]
PyStr(pieces) == [t |-> "str", s |-> pieces]

\* f"{v}": None is formatted as the text "None".
Format(v) == IF v.t = "None" THEN <<"None">> ELSE v.s

\* `if intro_text:`
Truthy(v) == v.t = "str" /\ v.s # <<>>

\* "\n（图片发送失败，请联系管理员检查机器人文件读写权限。）"
APOLOGY == <<"\n", "(image send failed, ask the admin to check file permissions)">>

\* _build_group_origin: f"aiocqhttp:group:{str(group_id).strip()}"
_build_group_origin(group_id) == <<"aiocqhttp:group:">> \o strip(group_id)

\* MessageChain components.
Plain(pieces) == [type |-> "Plain", text |-> pieces]
CompImage(path) == [type |-> "Image", file |-> path]

\* MessageChain().message(text)
TextChain(text) == <<Plain(text.s)>>

\* lines 919-922
ImageChain(image_path, intro_text) ==
    IF Truthy(intro_text)
    THEN <<Plain(intro_text.s), CompImage(image_path)>>
    ELSE <<CompImage(image_path)>>

\* lines 929-931: MessageChain().message(f"{intro_text}\n（...）")
FallbackChain(intro_text) == <<Plain(Format(intro_text) \o APOLOGY)>>

\* What context.send_message may raise; all are subclasses of Exception.
SendOutcomes == {"ok", "OSError", "RuntimeError"}
ExceptionSubclasses ==
    {"OSError", "RuntimeError", "ValueError", "TypeError", "ConflictingIdError", "JobLookupError"}

\* A slip the claims must notice: a handler for one error class only.
ExceptOSErrorOnly(e) == e = "OSError"

\* line 907: except Exception
TextSendHandler(e) == e \in ExceptionSubclasses
\* line 925: except Exception
ImageSendHandler(e) == e \in ExceptionSubclasses
\* line 933: except Exception
FallbackSendHandler(e) == e \in ExceptionSubclasses

NoCall == [fn |-> "none", text |-> PyNone, image_path |-> <<>>, intro_text |-> PyNone,
           i |-> 0, stage |-> "none"]

\* await self._send_text_to_all(text), up to its first suspension point
TextCall(text) ==
    [fn |-> "text", text |-> text, image_path |-> <<>>, intro_text |-> PyNone,
     i |-> 1, stage |-> "primary"]

\* await self._send_image_to_all(image_path, intro_text)
ImageCall(image_path, intro_text) ==
    [fn |-> "image", text |-> PyNone, image_path |-> image_path, intro_text |-> intro_text,
     i |-> 1, stage |-> "primary"]

SendIdle ==
    /\ call = NoCall
    /\ sent = <<>>
    /\ exc = "none"

\* What a file of the poster directory holds: the run that saved it ("timer"
\* or "cmd"), the brand and the deals drawn on it, and whether image.save has
\* finished writing it.
Poster(by, brand, poster) == [by |-> by, brand |-> brand, deals |-> poster, complete |-> TRUE]
NoFile == [by |-> "nobody", brand |-> <<>>, deals |-> <<>>, complete |-> FALSE]
NoFiles == files = <<>>

\* open(out_path, "wb") and the writes of image.save
WriteFile(fs, path, content) ==
    [p \in DOMAIN fs \cup {path} |-> IF p = path THEN content ELSE fs[p]]

\* The file an Image component names is read when the message is sent.
ReadFile(fs, path) == IF path \in DOMAIN fs THEN fs[path] ELSE NoFile
ReadByChain(fs, chain) ==
    IF \E n \in 1..Len(chain) : chain[n].type = "Image"
    THEN ReadFile(fs, chain[CHOOSE n \in 1..Len(chain) : chain[n].type = "Image"].file)
    ELSE NoFile

Attempt(stage, chain, outcome) ==
    [group |-> call.i, origin |-> _build_group_origin(target_groups[call.i]),
     chain |-> chain, stage |-> stage, ok |-> (outcome = "ok"),
     caption |-> call.intro_text, read |-> ReadByChain(files, chain)]

\* lines 897-898, 912-913 and the end of either loop: the call returns.
SendReturn ==
    /\ call.fn \in {"text", "image"}
    /\ call.stage = "primary"
    /\ call.i > Len(target_groups)
    /\ call' = NoCall
    /\ UNCHANGED <<sent, exc, target_groups>>

\* lines 902-908: one iteration of _send_text_to_all
SendTextTo(outcome) ==
    /\ call.fn = "text"
    /\ call.i <= Len(target_groups)
    /\ sent' = Append(sent, Attempt("primary", TextChain(call.text), outcome))
    /\ IF outcome = "ok" \/ TextSendHandler(outcome)
       THEN call' = [call EXCEPT !.i = @ + 1] /\ UNCHANGED exc
       ELSE call' = NoCall /\ exc' = outcome
    /\ UNCHANGED target_groups

\* lines 916-926: one iteration of _send_image_to_all, up to the image send
SendImageTo(outcome) ==
    /\ call.fn = "image"
    /\ call.stage = "primary"
    /\ call.i <= Len(target_groups)
    /\ sent' = Append(sent,
                      Attempt("primary", ImageChain(call.image_path, call.intro_text), outcome))
    /\ IF outcome = "ok"
       THEN call' = [call EXCEPT !.i = @ + 1] /\ UNCHANGED exc
       ELSE IF ImageSendHandler(outcome)
       THEN call' = [call EXCEPT !.stage = "fallback"] /\ UNCHANGED exc
       ELSE call' = NoCall /\ exc' = outcome
    /\ UNCHANGED target_groups

\* lines 927-936: the text-only fallback inside the except block
SendFallbackTo(outcome) ==
    /\ call.fn = "image"
    /\ call.stage = "fallback"
    /\ sent' = Append(sent, Attempt("fallback", FallbackChain(call.intro_text), outcome))
    /\ IF outcome = "ok" \/ FallbackSendHandler(outcome)
       THEN call' = [call EXCEPT !.i = @ + 1, !.stage = "primary"] /\ UNCHANGED exc
       ELSE call' = NoCall /\ exc' = outcome
    /\ UNCHANGED target_groups

notSendVars == <<target_brands, groupVars, posterVars, runVars, schedVars, files, cmd, fetchVars>>

SendNext ==
    \/ SendReturn /\ UNCHANGED notSendVars
    \/ (\E o \in SendOutcomes : SendTextTo(o)) /\ UNCHANGED notSendVars
    \/ (\E o \in SendOutcomes : SendImageTo(o)) /\ UNCHANGED notSendVars
    \/ (\E o \in SendOutcomes : SendFallbackTo(o)) /\ UNCHANGED notSendVars

-----------------------------------------------------------------------------
(* The timer-triggered run: _scheduled_task_entry and _run_daily_report.   *)

\* _sanitize_brand_for_filename: the characters for which str.isalnum() holds
IsAlnum(ch) == ch \notin {" ", "-", "&", "'", "[]"}

RECURSIVE KeepAlnum(_)
KeepAlnum(brand) ==
    IF brand = <<>> THEN <<>>
    ELSE IF IsAlnum(Head(brand)) THEN <<Head(brand)>> \o KeepAlnum(Tail(brand))
    ELSE KeepAlnum(Tail(brand))

_sanitize_brand_for_filename(brand) ==
    IF brand = <<>> THEN <<"brand">>
    ELSE IF KeepAlnum(brand) = <<>> THEN <<"brand">> ELSE KeepAlnum(brand)

\* lines 667-671: out_path; the date is the day of the run
PosterPath(brand_name) ==
    <<"data/fastfood_deals/", "fastfood_deals_", "YYYYMMDD", "_">>
        \o _sanitize_brand_for_filename(brand_name) \o <<".png">>

\* The texts of _run_daily_report.
\* "今日快餐优惠数据获取失败，请稍后重试。"
MSG_FETCH_FAILED == PyStr(<<"fetch failed notice">>)
\* "今日暂无监控到的快餐优惠活动。"
MSG_NO_DEALS == PyStr(<<"no deals notice">>)
\* f"{brand} 今日快餐优惠海报生成失败，但数据已获取成功，请稍后在控制台查看日志。"
MSG_RENDER_FAILED(brand) == PyStr(brand \o <<" poster failed notice">>)
\* "今日快餐优惠海报全部生成失败，但数据已获取成功，请稍后在控制台查看日志。"
MSG_ALL_FAILED == PyStr(<<"all posters failed notice">>)
\* "为您奉上今日快餐菜单与活动早报，请查阅。"
MSG_INTRO == PyStr(<<"intro">>)

\* What fetch_today_deals and generate_poster may raise.
IoErrors == {"OSError", "RuntimeError"}

\* line 837: except Exception
FetchHandler(e) == e \in ExceptionSubclasses
\* line 873: except Exception
RenderHandler(e) == e \in ExceptionSubclasses

\* A slip the claims must notice: the entry point has no handler of its own.
NoHandler(e) == FALSE

\* line 815: except Exception
EntryHandler(e) == e \in ExceptionSubclasses

\* A slip the claims must notice: the first render failure ends the loop.
NextBrandAfterFailureBreak(i, n) == n + 1

\* line 878: `continue` goes on with the next brand
NextBrandAfterFailure(i, n) == i + 1

\* The deals at the positions a bucket of brand_map holds.
DealsAt(ds, positions) == [n \in 1..Len(positions) |-> ds[positions[n]]]

RunIdle ==
    /\ entry = "idle"
    /\ pc = "idle"
    /\ fetched = "no"
    /\ bi = 0
    /\ any_success = FALSE
    /\ posters_to_send = <<>>
    /\ renders = <<>>
    /\ pi = 0

notRunVars == <<posterVars, schedVars, cmd, fetchVars>>

\* The run is at a point where _run_daily_report itself executes.
Running == entry = "running" /\ call = NoCall /\ exc = "none"

\* The scheduler fires the job: _scheduled_task_entry is called (line 808).
ScheduledFire ==
    /\ entry = "idle"
    /\ entry' = "running"
    /\ pc' = "begin"
    /\ UNCHANGED <<fetched, bi, any_success, posters_to_send, renders, pi>>
    /\ UNCHANGED <<configVars, groupVars, sendVars, notRunVars>>
    /\ UNCHANGED files

\* lines 825-827: no destination configured, nothing is done.
RunSkip ==
    /\ Running /\ pc = "begin"
    /\ target_groups = <<>>
    /\ pc' = "return"
    /\ UNCHANGED <<entry, fetched, bi, any_success, posters_to_send, renders, pi>>
    /\ UNCHANGED <<configVars, groupVars, sendVars, notRunVars>>
    /\ UNCHANGED files

\* lines 829-842: fetch_today_deals raises.
RunFetchRaises(e) ==
    /\ Running /\ pc = "begin"
    /\ target_groups # <<>>
    /\ fetched' = "raised"
    /\ IF FetchHandler(e)
       THEN /\ call' = TextCall(MSG_FETCH_FAILED)
            /\ pc' = "return"
            /\ UNCHANGED exc
       ELSE /\ exc' = e
            /\ UNCHANGED <<call, pc>>
    /\ UNCHANGED <<entry, bi, any_success, posters_to_send, renders, pi, sent>>
    /\ UNCHANGED <<configVars, groupVars, notRunVars>>
    /\ UNCHANGED files

\* lines 829-863: fetch_today_deals returns `ds`; then, with no suspension point
\* in between, the empty-list notice or the grouping.
RunFetchReturns(ds) ==
    /\ Running /\ pc = "begin"
    /\ target_groups # <<>>
    /\ fetched' = "returned"
    /\ deals' = ds
    /\ IF ds = <<>>
       THEN /\ call' = TextCall(MSG_NO_DEALS)
            /\ pc' = "return"
            /\ UNCHANGED <<exc, brand_map, ordered_brands, gpc, bi>>
       ELSE /\ brand_map' = GroupByBrand(ds)
            /\ IF OrderingRaises(target_brands)
               THEN /\ exc' = "TypeError"
                    /\ UNCHANGED <<ordered_brands, gpc, pc, bi, call>>
               ELSE /\ ordered_brands' = OrderBrands(target_brands, brand_map')
                    /\ gpc' = "grouped"
                    /\ pc' = "render"
                    /\ bi' = 1
                    /\ UNCHANGED <<exc, call>>
    /\ UNCHANGED <<entry, any_success, posters_to_send, renders, pi, sent>>
    /\ UNCHANGED <<configVars, notRunVars>>
    /\ UNCHANGED files

\* lines 867-881: one iteration of the render loop; `outcome` is "ok" or what
\* generate_poster raises.
RenderBrand(outcome) ==
    /\ Running /\ pc = "render"
    /\ bi <= Len(ordered_brands)
    /\ LET brand == ordered_brands[bi]
           k == BucketOf(brand_map, brand)
           brand_deals == IF k = 0 THEN <<>> ELSE brand_map[k].deals
       IN  IF brand_deals = <<>>
           THEN \* if not brand_deals: continue
                /\ bi' = bi + 1
                /\ UNCHANGED <<renders, posters_to_send, any_success, call, exc, files>>
           ELSE /\ renders' = Append(renders,
                        [brand |-> brand, deals |-> brand_deals, ok |-> (outcome = "ok")])
                /\ IF outcome = "ok"
                   THEN /\ files' = WriteFile(files, PosterPath(brand),
                                       Poster("timer", brand, DealsAt(deals, brand_deals)))
                        /\ posters_to_send' = Append(posters_to_send, PosterPath(brand))
                        /\ any_success' = TRUE
                        /\ bi' = bi + 1
                        /\ UNCHANGED <<call, exc>>
                   ELSE IF RenderHandler(outcome)
                   THEN /\ call' = TextCall(MSG_RENDER_FAILED(brand))
                        /\ bi' = NextBrandAfterFailure(bi, Len(ordered_brands))
                        /\ UNCHANGED <<posters_to_send, any_success, exc, files>>
                   ELSE /\ exc' = outcome
                        /\ UNCHANGED <<posters_to_send, any_success, call, bi, files>>
    /\ UNCHANGED <<entry, pc, fetched, pi, sent>>
    /\ UNCHANGED <<configVars, groupVars, notRunVars>>

\* lines 883-891: after the render loop, the summary notice or the intro.
AfterRenders ==
    /\ Running /\ pc = "render"
    /\ bi > Len(ordered_brands)
    /\ IF ~any_success
       THEN /\ call' = TextCall(MSG_ALL_FAILED)
            /\ pc' = "return"
            /\ UNCHANGED pi
       ELSE /\ call' = TextCall(MSG_INTRO)
            /\ pc' = "images"
            /\ pi' = 1
    /\ UNCHANGED <<entry, fetched, bi, any_success, posters_to_send, renders, sent, exc>>
    /\ UNCHANGED <<configVars, groupVars, notRunVars>>
    /\ UNCHANGED files

\* A slip the claims must notice: the posters are sent last to first.
SendNextPosterReversed ==
    /\ Running /\ pc = "images"
    /\ IF pi <= Len(posters_to_send)
       THEN /\ call' = ImageCall(posters_to_send[Len(posters_to_send) - pi + 1], PyNone)
            /\ pi' = pi + 1
            /\ UNCHANGED pc
       ELSE /\ pc' = "return"
            /\ UNCHANGED <<call, pi>>
    /\ UNCHANGED <<entry, fetched, bi, any_success, posters_to_send, renders, sent, exc>>
    /\ UNCHANGED <<configVars, groupVars, notRunVars>>
    /\ UNCHANGED files

\* lines 892-893: the next poster is handed to _send_image_to_all, no caption.
SendNextPoster ==
    /\ Running /\ pc = "images"
    /\ IF pi <= Len(posters_to_send)
       THEN /\ call' = ImageCall(posters_to_send[pi], PyNone)
            /\ pi' = pi + 1
            /\ UNCHANGED pc
       ELSE /\ pc' = "return"
            /\ UNCHANGED <<call, pi>>
    /\ UNCHANGED <<entry, fetched, bi, any_success, posters_to_send, renders, sent, exc>>
    /\ UNCHANGED <<configVars, groupVars, notRunVars>>
    /\ UNCHANGED files

\* lines 813-816: _run_daily_report is over, by a return or by an exception
\* that reaches the handler of _scheduled_task_entry.
EntryExit ==
    /\ entry = "running" /\ call = NoCall
    /\ \/ /\ exc = "none" /\ pc = "return"
          /\ entry' = "returned"
          /\ UNCHANGED exc
       \/ /\ exc # "none"
          /\ IF EntryHandler(exc)
             THEN entry' = "returned" /\ exc' = "none"
             ELSE entry' = "raised" /\ UNCHANGED exc
    /\ pc' = "idle"
    /\ UNCHANGED <<fetched, bi, any_success, posters_to_send, renders, pi, call, sent>>
    /\ UNCHANGED <<configVars, groupVars, notRunVars>>
    /\ UNCHANGED files

\* The send routines as called from the run.
RunDeals == {[title |-> "t", brand |-> v] : v \in {<<"a">>, <<"b", " ">>}}
RunPreferredLists == {<<>>, <<<<"b">>>>, <<UNHASHABLE>>}
RunGroupLists == {SubSeq(<<<<"1">>, <<" ", "2">>, <<"1">>>>, 1, n) : n \in 0..MaxRunGroups}

RunNext ==
    \/ ScheduledFire
    \/ RunSkip
    \/ \E e \in IoErrors : RunFetchRaises(e)
    \/ \E ds \in SeqUpTo(RunDeals, MaxRunDeals) : RunFetchReturns(ds)
    \/ \E o \in {"ok"} \cup IoErrors : RenderBrand(o)
    \/ AfterRenders
    \/ SendNextPoster
    \/ EntryExit
    \/ SendReturn /\ UNCHANGED notSendVars
    \/ (\E o \in SendOutcomes : SendTextTo(o)) /\ UNCHANGED notSendVars
    \/ (\E o \in SendOutcomes : SendImageTo(o)) /\ UNCHANGED notSendVars
    \/ (\E o \in SendOutcomes : SendFallbackTo(o)) /\ UNCHANGED notSendVars

-----------------------------------------------------------------------------
(* The command-triggered run: cmd_fastfood_report, an async generator. Its *)
(* locals are fields of `cmd`; what it yields is appended to cmd.out, and  *)
(* the file an image result names is read when the result is yielded.      *)

\* "今日快餐优惠数据获取失败，请稍后重试。"
CMD_FETCH_FAILED == <<"fetch failed notice">>
\* "今日暂无监控到的快餐优惠活动。"
CMD_NO_DEALS == <<"no deals notice">>
\* "为您奉上今日快餐菜单与活动早报，请查阅。"
CMD_INTRO == <<"intro">>
\* f"{brand} 今日快餐优惠海报生成失败，请稍后重试。"
CMD_RENDER_FAILED(brand) == brand \o <<" poster failed, retry later">>

\* event.plain_result(text), event.image_result(path)
plain_result(text) == [type |-> "plain", text |-> text, file |-> <<>>, read |-> NoFile]
image_result(path, fs) == [type |-> "image", text |-> <<>>, file |-> path,
                           read |-> ReadFile(fs, path)]

\* line 746: except Exception
CmdFetchHandler(e) == e \in ExceptionSubclasses
\* line 780: except Exception
CmdRenderHandler(e) == e \in ExceptionSubclasses

CmdIdle ==
    cmd = [pc |-> "idle", deals |-> <<>>, brand_map |-> <<>>, ordered_brands |-> <<>>,
           bi |-> 0, renders |-> <<>>, out |-> <<>>]

notCmdVars == <<configVars, groupVars, posterVars, sendVars, runVars, schedVars, fetchVars>>

\* The command arrives: the framework calls cmd_fastfood_report (line 736).
CmdStart ==
    /\ cmd.pc = "idle"
    /\ cmd' = [cmd EXCEPT !.pc = "begin"]
    /\ UNCHANGED <<files, notCmdVars>>

\* lines 738-749: fetch_today_deals raises.
CmdFetchRaises(e) ==
    /\ cmd.pc = "begin"
    /\ IF CmdFetchHandler(e)
       THEN cmd' = [cmd EXCEPT !.pc = "done", !.out = Append(@, plain_result(CMD_FETCH_FAILED))]
       ELSE cmd' = [cmd EXCEPT !.pc = "raised"]
    /\ UNCHANGED <<files, notCmdVars>>

\* lines 738-772: fetch_today_deals returns `ds`; the empty-list notice, or the
\* grouping and the intro.
CmdFetchReturns(ds) ==
    /\ cmd.pc = "begin"
    /\ IF ds = <<>>
       THEN cmd' = [cmd EXCEPT !.pc = "done", !.out = Append(@, plain_result(CMD_NO_DEALS))]
       ELSE IF OrderingRaises(target_brands)
       THEN cmd' = [cmd EXCEPT !.pc = "raised", !.deals = ds, !.brand_map = GroupByBrand(ds)]
       ELSE cmd' = [cmd EXCEPT !.pc = "render", !.deals = ds,
                               !.brand_map = GroupByBrand(ds),
                               !.ordered_brands = OrderBrands(target_brands, GroupByBrand(ds)),
                               !.bi = 1,
                               !.out = Append(@, plain_result(CMD_INTRO))]
    /\ UNCHANGED <<files, notCmdVars>>

\* lines 774-783: the next brand; generate_poster starts in a worker thread and
\* either raises before image.save (`outcome` is the error) or opens out_path.
CmdRenderBrand(outcome) ==
    /\ cmd.pc = "render"
    /\ cmd.bi <= Len(cmd.ordered_brands)
    /\ LET brand == cmd.ordered_brands[cmd.bi]
           k == BucketOf(cmd.brand_map, brand)
           brand_deals == IF k = 0 THEN <<>> ELSE cmd.brand_map[k].deals
       IN  IF brand_deals = <<>>
           THEN /\ cmd' = [cmd EXCEPT !.bi = @ + 1]
                /\ UNCHANGED files
           ELSE IF outcome = "ok"
           THEN /\ files' = WriteFile(files, PosterPath(brand),
                       [Poster("cmd", brand, DealsAt(cmd.deals, brand_deals))
                           EXCEPT !.complete = FALSE])
                /\ cmd' = [cmd EXCEPT !.pc = "saving"]
           ELSE /\ UNCHANGED files
                /\ IF CmdRenderHandler(outcome)
                   THEN cmd' = [cmd EXCEPT
                           !.renders = Append(@, [brand |-> brand, deals |-> brand_deals,
                                                  ok |-> FALSE]),
                           !.out = Append(@, plain_result(CMD_RENDER_FAILED(brand))),
                           !.bi = @ + 1]
                   ELSE cmd' = [cmd EXCEPT !.pc = "raised"]
    /\ UNCHANGED notCmdVars

\* line 672 in the worker thread, then line 779: image.save completes and
\* generate_poster returns the path, or image.save raises (`outcome`).
CmdSaved(outcome) ==
    /\ cmd.pc = "saving"
    /\ LET brand == cmd.ordered_brands[cmd.bi]
           brand_deals == cmd.brand_map[BucketOf(cmd.brand_map, brand)].deals
           render == [brand |-> brand, deals |-> brand_deals, ok |-> (outcome = "ok")]
       IN  IF outcome = "ok"
           THEN /\ files' = WriteFile(files, PosterPath(brand),
                       Poster("cmd", brand, DealsAt(cmd.deals, brand_deals)))
                /\ cmd' = [cmd EXCEPT !.pc = "yield", !.renders = Append(@, render)]
           ELSE /\ UNCHANGED files
                /\ IF CmdRenderHandler(outcome)
                   THEN cmd' = [cmd EXCEPT
                           !.pc = "render",
                           !.renders = Append(@, render),
                           !.out = Append(@, plain_result(CMD_RENDER_FAILED(brand))),
                           !.bi = @ + 1]
                   ELSE cmd' = [cmd EXCEPT !.pc = "raised"]
    /\ UNCHANGED notCmdVars

\* line 784: yield event.image_result(poster_path)
CmdYieldImage ==
    /\ cmd.pc = "yield"
    /\ cmd' = [cmd EXCEPT
          !.pc = "render",
          !.out = Append(@, image_result(PosterPath(cmd.ordered_brands[cmd.bi]), files)),
          !.bi = @ + 1]
    /\ UNCHANGED <<files, notCmdVars>>

\* The loop of line 774 is over: the generator is exhausted.
CmdReturn ==
    /\ cmd.pc = "render"
    /\ cmd.bi > Len(cmd.ordered_brands)
    /\ cmd' = [cmd EXCEPT !.pc = "done"]
    /\ UNCHANGED <<files, notCmdVars>>

\* A command-triggered run and a timer-triggered run of the same instance on
\* the same day, interleaved at their suspension points. Fetches and renders
\* may fail; every send succeeds (failing sends are the subject of the
\* specification of the timer-triggered run alone).
MaxBothDeals == 2   \* longest deal list either run fetches
BothDealLists ==
    LET all ==
          <<[title |-> "t", brand |-> <<"a">>], [title |-> "t", brand |-> <<"a", "-">>],
            [title |-> "u", brand |-> <<"a">>], [title |-> "u", brand |-> <<"a", "-">>]>>
    IN  {SubSeq(all, 1, n) : n \in 0..MaxBothDeals}
BothErrors == {"OSError"}

BothNext ==
    \/ ScheduledFire
    \/ RunSkip
    \/ \E e \in BothErrors : RunFetchRaises(e)
    \/ \E ds \in BothDealLists : RunFetchReturns(ds)
    \/ \E o \in {"ok"} \cup BothErrors : RenderBrand(o)
    \/ AfterRenders
    \/ SendNextPoster
    \/ EntryExit
    \/ SendReturn /\ UNCHANGED notSendVars
    \/ SendTextTo("ok") /\ UNCHANGED notSendVars
    \/ SendImageTo("ok") /\ UNCHANGED notSendVars
    \/ CmdStart
    \/ \E e \in BothErrors : CmdFetchRaises(e)
    \/ \E ds \in BothDealLists : CmdFetchReturns(ds)
    \/ \E o \in {"ok"} \cup BothErrors : CmdRenderBrand(o)
    \/ \E o \in {"ok"} \cup BothErrors : CmdSaved(o)
    \/ CmdYieldImage
    \/ CmdReturn

-----------------------------------------------------------------------------
(* Specification of one send call alone: any destination list, either      *)
(* routine, any caption.                                                   *)

Captions == {PyNone, PyStr(<<>>), PyStr(<<"caption">>)}

-----------------------------------------------------------------------------
(* Specification of the grouping step alone: any deal list, any preferred  *)
(* list, grouped as both report routines group them.                       *)

GroupDeals ==
    {[title |-> "t"]} \cup
    {[title |-> "t", brand |-> v] : v \in {<<>>, <<" ">>, <<"a">>, <<"a", " ">>, <<"b">>, <<"c">>}}
PreferredValues == {<<"a">>, <<"b">>, <<"a", " ">>, <<"d">>}

\* lines 851-863 (and 755-768): both loops, no suspension point between them.
Grouping ==
    /\ gpc = "fetched"
    /\ brand_map' = GroupByBrand(deals)
    /\ ordered_brands' = OrderBrands(target_brands, brand_map')
    /\ gpc' = "grouped"
    /\ UNCHANGED <<deals, configVars, posterVars, sendVars, runVars, schedVars, files, cmd, fetchVars>>

GroupNext == Grouping

-----------------------------------------------------------------------------
(* _parse_schedule_time.                                                   *)

Digits == <<"0", "1", "2", "3", "4", "5", "6", "7", "8", "9">>
IsDigit(ch) == \E d \in 1..Len(Digits) : Digits[d] = ch
DigitValue(ch) == (CHOOSE d \in 1..Len(Digits) : Digits[d] = ch) - 1

\* str.split(sep): the pieces between the separators, empty ones included.
RECURSIVE split(_, _, _)
split(s, sep, piece) ==
    IF s = <<>> THEN <<piece>>
    ELSE IF Head(s) = sep THEN <<piece>> \o split(Tail(s), sep, <<>>)
    ELSE split(Tail(s), sep, Append(piece, Head(s)))

RECURSIVE DecimalValue(_, _)
DecimalValue(body, acc) ==
    IF body = <<>> THEN acc
    ELSE IF Head(body) = "_" THEN DecimalValue(Tail(body), acc)
    ELSE DecimalValue(Tail(body), acc * 10 + DigitValue(Head(body)))

\* int(text): blanks around it, an optional sign, decimal digits that single
\* underscores may separate; anything else raises ValueError.
int(text) ==
    LET t == strip(text)
        signed == t # <<>> /\ Head(t) \in {"+", "-"}
        body == IF signed THEN Tail(t) ELSE t
        wellFormed ==
            /\ body # <<>>
            /\ \A n \in 1..Len(body) : IsDigit(body[n]) \/ body[n] = "_"
            /\ IsDigit(body[1]) /\ IsDigit(body[Len(body)])
            /\ \A n \in 1..(Len(body) - 1) : ~(body[n] = "_" /\ body[n + 1] = "_")
    IN  IF ~wellFormed THEN [raised |-> "ValueError", v |-> 0]
        ELSE [raised |-> "none",
              v |-> IF signed /\ Head(t) = "-"
                    THEN 0 - DecimalValue(body, 0) ELSE DecimalValue(body, 0)]

\* line 52: return 8, 0
DEFAULT_TIME == <<8, 0>>

\* line 50: except Exception
ParseHandler(e) == e \in ExceptionSubclasses

\* lines 41-52: the pair, or the exception that leaves the function
_parse_schedule_time(schedule_time) ==
    LET parts == split(strip(schedule_time), ":", <<>>)
        hour == int(parts[1])
        minute == int(parts[2])
        raised ==
            IF Len(parts) # 2 THEN "ValueError"
            ELSE IF hour.raised # "none" THEN hour.raised
            ELSE IF minute.raised # "none" THEN minute.raised
            ELSE IF ~(0 <= hour.v /\ hour.v <= 23 /\ 0 <= minute.v /\ minute.v <= 59)
            THEN "ValueError"
            ELSE "none"
    IN  IF raised = "none" THEN [raised |-> "none", time |-> <<hour.v, minute.v>>]
        ELSE IF ParseHandler(raised) THEN [raised |-> "none", time |-> DEFAULT_TIME]
        ELSE [raised |-> raised, time |-> <<>>]

-----------------------------------------------------------------------------
(* The shared scheduler and the plugin instances.                          *)

Addresses == 1..MaxInstances

\* line 724: f"fastfood_deals_daily_{id(self)}"
JobId(a) == <<"fastfood_deals_daily_", a>>

\* lines 794-801: the job as handed to add_job
Job(sched, id, time) ==
    [sched |-> sched, id |-> id, hour |-> time[1], minute |-> time[2],
     coalesce |-> TRUE, misfire_grace_time |-> 300]

HasJob(js, sched, id) == \E k \in 1..Len(js) : js[k].sched = sched /\ js[k].id = id

\* AsyncIOScheduler.add_job: a job whose id is in the store replaces the one
\* there when replace_existing is set, and raises ConflictingIdError otherwise.
add_job(js, job, replace_existing) ==
    IF HasJob(js, job.sched, job.id)
    THEN IF replace_existing
         THEN [raised |-> "none",
               jobs |-> [k \in 1..Len(js) |->
                           IF js[k].sched = job.sched /\ js[k].id = job.id THEN job ELSE js[k]]]
         ELSE [raised |-> "ConflictingIdError", jobs |-> js]
    ELSE [raised |-> "none", jobs |-> Append(js, job)]

\* A slip the claims must notice: replace_existing left at its default.
AddDailyJobNoReplace(js, sched, id, time) == add_job(js, Job(sched, id, time), FALSE)

\* lines 794-801: scheduler.add_job(..., id=self._job_id, replace_existing=True, ...)
AddDailyJob(js, sched, id, time) == add_job(js, Job(sched, id, time), TRUE)

\* AsyncIOScheduler.remove_job: raises JobLookupError when the id is not there.
remove_job(js, sched, id) ==
    IF HasJob(js, sched, id)
    THEN [raised |-> "none",
          jobs |-> SelectSeq(js, LAMBDA j : ~(j.sched = sched /\ j.id = id))]
    ELSE [raised |-> "JobLookupError", jobs |-> js]

\* A slip the claims must notice: every job of the scheduler is removed.
RemoveEveryJob(js, sched, id) ==
    [raised |-> "none", jobs |-> SelectSeq(js, LAMBDA j : j.sched # sched)]

\* line 945: scheduler.remove_job(self._job_id)
RemoveOwnJob(js, sched, id) == remove_job(js, sched, id)

\* A slip the claims must notice: a scheduler is made on every call.
AlwaysCreates(current) == TRUE

\* line 29: if _scheduler is None
GetSchedulerCreates(current) == current = 0

\* line 805: except Exception
RegisterHandler(e) == e \in ExceptionSubclasses
\* lines 947-951: except JobLookupError: pass / except Exception
TerminateHandler(e) == e = "JobLookupError" \/ e \in ExceptionSubclasses

\* state and schedule_time are the instance's; the other fields record its
\* calls: the trigger its latest registration asked for, what that registration
\* found under its id ("none", "same" trigger or "other" trigger), and a mark
\* that every terminate call flips.
FreeInstance ==
    [state |-> "free", schedule_time |-> <<>>, trigger |-> <<>>, replaced |-> "none",
     tflip |-> FALSE]

SchedIdle ==
    /\ _scheduler = 0
    /\ schedulers = 0
    /\ jobs = <<>>
    /\ instances = <<>>

notSchedVars == <<configVars, groupVars, posterVars, call, sent, runVars, files, cmd, fetchVars>>

\* The trigger of the job stored under `id`, or <<>>.
TriggerOf(js, sched, id) ==
    IF HasJob(js, sched, id)
    THEN LET k == CHOOSE k \in 1..Len(js) : js[k].sched = sched /\ js[k].id = id
         IN  <<js[k].hour, js[k].minute>>
    ELSE <<>>

\* lines 786-806: _register_daily_job of the instance at address a, whose
\* schedule_time is st.
Register(a, st, state) ==
    LET creates == GetSchedulerCreates(_scheduler)
        scheduler == IF creates THEN schedulers + 1 ELSE _scheduler
        parsed == _parse_schedule_time(st)
        added == AddDailyJob(jobs, scheduler, JobId(a), parsed.time)
    IN  /\ _scheduler' = scheduler
        /\ schedulers' = IF creates THEN schedulers + 1 ELSE schedulers
        /\ IF parsed.raised # "none"
           THEN jobs' = jobs /\ exc' = parsed.raised
           ELSE /\ jobs' = added.jobs
                /\ exc' = IF added.raised = "none" \/ RegisterHandler(added.raised)
                          THEN "none" ELSE added.raised
        /\ instances' = [instances EXCEPT ![a] =
              [state |-> state, schedule_time |-> st,
               trigger |-> parsed.time,
               replaced |-> IF TriggerOf(jobs, scheduler, JobId(a)) = <<>> THEN "none"
                            ELSE IF TriggerOf(jobs, scheduler, JobId(a)) = parsed.time
                            THEN "same" ELSE "other",
               tflip |-> instances[a].tflip]]

\* lines 709-733: __init__ of a new plugin instance, which the allocator puts
\* at an address no live object has (a job keeps its instance alive).
Activate(a, st) ==
    /\ instances[a].state = "free"
    /\ \A k \in 1..Len(jobs) : jobs[k].id # JobId(a)
    /\ Register(a, st, "active")
    /\ UNCHANGED notSchedVars

\* _register_daily_job called again on a live instance after its
\* schedule_time was changed.
ReRegister(a, st) ==
    /\ instances[a].state = "active"
    /\ Register(a, st, "active")
    /\ UNCHANGED notSchedVars

\* lines 938-951: terminate, which the host may call more than once.
Terminate(a) ==
    /\ instances[a].state \in {"active", "terminated"}
    /\ LET creates == GetSchedulerCreates(_scheduler)
           scheduler == IF creates THEN schedulers + 1 ELSE _scheduler
           removed == RemoveOwnJob(jobs, scheduler, JobId(a))
       IN  /\ _scheduler' = scheduler
           /\ schedulers' = IF creates THEN schedulers + 1 ELSE schedulers
           /\ jobs' = removed.jobs
           /\ exc' = IF removed.raised = "none" \/ TerminateHandler(removed.raised)
                     THEN "none" ELSE removed.raised
    /\ instances' = [instances EXCEPT ![a].state = "terminated",
                                      ![a].replaced = "none",
                                      ![a].tflip = ~@]
    /\ UNCHANGED notSchedVars

\* The terminated instance is garbage: its address can be used again. A job
\* holds the bound method, so an instance with a job is never collected.
Collect(a) ==
    /\ instances[a].state = "terminated"
    /\ \A k \in 1..Len(jobs) : jobs[k].id # JobId(a)
    /\ instances' = [instances EXCEPT ![a] = FreeInstance]
    /\ UNCHANGED <<_scheduler, schedulers, jobs, exc>>
    /\ UNCHANGED notSchedVars

ScheduleTimes ==
    { <<"0", "7", ":", "3", "0">>,
      <<" ", "9", ":", "0", "5", " ">>,
      <<"2", "5", ":", "0", "0">> }

\* Activation of one instance on any schedule string of a small alphabet.
MaxTimeLen == 5     \* longest schedule_time string
TimeStrings == SeqUpTo({"0", "2", "3", "4", "6", ":", " ", "-"}, MaxTimeLen)

ParseNext == instances[1].state = "free" /\ \E st \in TimeStrings : Activate(1, st)

SchedNext ==
    \/ \E a \in Addresses, st \in ScheduleTimes : Activate(a, st)
    \/ \E a \in Addresses, st \in ScheduleTimes : ReRegister(a, st)
    \/ \E a \in Addresses : Terminate(a)
    \/ \E a \in Addresses : Collect(a)

-----------------------------------------------------------------------------
(* fetch_today_deals: the choice of the data source.                       *)

\* A Python list, or None.
PyList(items) == [t |-> "list", items |-> items]

\* str.lower on the pieces a selector is made of
lower(str) ==
    [n \in 1..Len(str) |-> IF str[n] = "RSS" THEN "rss"
                           ELSE IF str[n] = "API" THEN "api" ELSE str[n]]

\* str.startswith("http")
startswith_http(str) == str # <<>> /\ str[1] \in {"http://", "https://"}

\* `x or default` for a str or None
OrStr(v, default) == IF v.t = "None" \/ v.s = <<>> THEN default ELSE v.s
\* `rss_urls or []`
OrList(v) == IF v.t = "None" THEN <<>> ELSE v.items

\* line 315: ["肯德基", "麦当劳", "德克士"]
DEFAULT_BRANDS == << <<"KFC">>, <<"McDonalds">>, <<"Dicos">> >>
\* the number of entries of base_presets
PRESETS == 3

\* lines 225-297: _fetch_mock_deals, one deal per brand and preset
_fetch_mock_deals(tb) ==
    LET brands == IF tb = <<>> THEN DEFAULT_BRANDS ELSE tb
    IN  [n \in 1..(Len(brands) * PRESETS) |->
            [brand |-> brands[((n - 1) \div PRESETS) + 1],
             title |-> <<"preset", ((n - 1) % PRESETS)>>]]

\* line 122: the URLs _fetch_from_rss requests
RssRequested(urls) == SelectSeq(urls, LAMBDA u : u # <<>> /\ startswith_http(strip(u)))

\* lines 110-177: _fetch_from_rss; `net` is what the feeds yield
_fetch_from_rss(urls, net) == IF RssRequested(urls) = <<>> THEN <<>> ELSE net

\* lines 181-243: _fetch_from_api; `net` is what the endpoint yields
_fetch_from_api(api_url, net) ==
    IF api_url = <<>> \/ ~startswith_http(strip(api_url)) THEN <<>> ELSE net

\* line 316: (data_source or "mock").strip().lower()
Selector(data_source) == lower(strip(OrStr(data_source, <<"mock">>)))

\* lines 314-329
fetch_today_deals(tb, data_source, rss_urls, api_url, net) ==
    LET brands == IF tb = <<>> THEN DEFAULT_BRANDS ELSE tb
        sel == Selector(data_source)
        mock == [by |-> "mock", deals |-> _fetch_mock_deals(brands)]
    IN  IF sel = <<"rss">>
        THEN IF OrList(rss_urls) # <<>>
             THEN [by |-> "rss", deals |-> _fetch_from_rss(OrList(rss_urls), net)]
             ELSE mock
        ELSE IF sel = <<"api">>
        THEN IF api_url # <<>> /\ startswith_http(strip(api_url))
             THEN [by |-> "api", deals |-> _fetch_from_api(strip(api_url), net)]
             ELSE mock
        ELSE mock

FetchIdle ==
    /\ source = [data_source |-> PyNone, rss_urls |-> PyNone, api_url |-> <<>>]
    /\ fetching = [pc |-> "idle", by |-> "none", deals |-> <<>>]

\* One call of fetch_today_deals, to its return.
FetchCall(net) ==
    /\ fetching.pc = "called"
    /\ LET r == fetch_today_deals(target_brands, source.data_source, source.rss_urls,
                                  source.api_url, net)
       IN  fetching' = [pc |-> "returned", by |-> r.by, deals |-> r.deals]
    /\ UNCHANGED <<source, configVars, groupVars, posterVars, sendVars, runVars, schedVars,
                   files, cmd>>

Selectors ==
    {PyNone, PyStr(<<>>), PyStr(<<"mock">>), PyStr(<<"rss">>), PyStr(<<" ", "RSS", " ">>),
     PyStr(<<"api">>), PyStr(<<"API">>), PyStr(<<"sqlite">>)}
RssUrlLists ==
    {PyNone, PyList(<<>>), PyList(<< <<"ftp://", "feed">> >>), PyList(<< <<>> >>),
     PyList(<< <<" ", "https://", "feed">> >>),
     PyList(<< <<"ftp://", "feed">>, <<"http://", "feed">> >>)}
ApiUrls == {<<>>, <<" ">>, <<"ftp://", "api">>, <<" ", "http://", "api">>, <<"https://", "api">>}
NetResults == {<<>>, <<[brand |-> <<"KFC">>, title |-> <<"net">>]>>}

FetchNext == \E net \in NetResults : FetchCall(net)

-----------------------------------------------------------------------------
(* Specifications: each starts one part of the program on any input of its *)
(* bounded input sets and leaves the other parts idle.                     *)

vars == <<configVars, groupVars, posterVars, sendVars, runVars, schedVars, files, cmd, fetchVars>>

GroupInit ==
    /\ deals \in SeqUpTo(GroupDeals, MaxDeals)
    /\ target_brands \in SeqUpTo(PreferredValues, MaxPreferred)
    /\ target_groups = <<>>
    /\ brand_map = <<>>
    /\ ordered_brands = <<>>
    /\ gpc = "fetched"
    /\ PosterIdle
    /\ SendIdle
    /\ RunIdle
    /\ SchedIdle
    /\ NoFiles
    /\ CmdIdle
    /\ FetchIdle

PosterInit ==
    /\ \E b \in PosterBrands : poster_deals \in SeqUpTo(PosterDealsOf(b), MaxPosterDeals)
    /\ y = 0
    /\ idx = 0
    /\ cards = <<>>
    /\ fetched_urls = <<>>
    /\ ppc = "start"
    /\ target_groups = <<>>
    /\ target_brands = <<>>
    /\ deals = <<>>
    /\ brand_map = <<>>
    /\ ordered_brands = <<>>
    /\ gpc = "idle"
    /\ SendIdle
    /\ RunIdle
    /\ SchedIdle
    /\ NoFiles
    /\ CmdIdle
    /\ FetchIdle

SendInit ==
    /\ target_groups \in SeqUpTo({<<"1">>, <<" ", "2">>}, MaxGroups)
    /\ call \in {TextCall(PyStr(<<"text">>))} \cup {ImageCall(PosterPath(<<"a">>), c) : c \in Captions}
    /\ sent = <<>>
    /\ exc = "none"
    /\ target_brands = <<>>
    /\ deals = <<>>
    /\ brand_map = <<>>
    /\ ordered_brands = <<>>
    /\ gpc = "idle"
    /\ PosterIdle
    /\ RunIdle
    /\ SchedIdle
    /\ NoFiles
    /\ CmdIdle
    /\ FetchIdle

RunInit ==
    /\ target_groups \in RunGroupLists
    /\ target_brands \in RunPreferredLists
    /\ deals = <<>>
    /\ brand_map = <<>>
    /\ ordered_brands = <<>>
    /\ gpc = "idle"
    /\ PosterIdle
    /\ SendIdle
    /\ RunIdle
    /\ SchedIdle
    /\ NoFiles
    /\ CmdIdle
    /\ FetchIdle

SchedInit ==
    /\ _scheduler = 0
    /\ schedulers = 0
    /\ jobs = <<>>
    /\ instances = [a \in Addresses |-> FreeInstance]
    /\ target_groups = <<>>
    /\ target_brands = <<>>
    /\ deals = <<>>
    /\ brand_map = <<>>
    /\ ordered_brands = <<>>
    /\ gpc = "idle"
    /\ PosterIdle
    /\ SendIdle
    /\ RunIdle
    /\ NoFiles
    /\ CmdIdle
    /\ FetchIdle

SpecGroup == GroupInit /\ [][GroupNext]_vars

SpecSend == SendInit /\ [][SendNext]_vars

SpecPoster == PosterInit /\ [][PosterNext]_vars

SpecRun == RunInit /\ [][RunNext]_vars

SpecSched == SchedInit /\ [][SchedNext]_vars

SpecParse == SchedInit /\ [][ParseNext]_vars

BothInit ==
    /\ target_groups \in {<<>>, <<<<"1">>>>}
    /\ target_brands \in {<<>>, <<<<"a">>, <<"a">>>>}
    /\ deals = <<>>
    /\ brand_map = <<>>
    /\ ordered_brands = <<>>
    /\ gpc = "idle"
    /\ PosterIdle
    /\ SendIdle
    /\ RunIdle
    /\ SchedIdle
    /\ NoFiles
    /\ CmdIdle
    /\ FetchIdle

SpecBoth == BothInit /\ [][BothNext]_vars

FetchInit ==
    /\ target_brands \in {<<>>, << <<"KFC">> >>}
    /\ source \in [data_source : Selectors, rss_urls : RssUrlLists, api_url : ApiUrls]
    /\ fetching = [pc |-> "called", by |-> "none", deals |-> <<>>]
    /\ target_groups = <<>>
    /\ deals = <<>>
    /\ brand_map = <<>>
    /\ ordered_brands = <<>>
    /\ gpc = "idle"
    /\ PosterIdle
    /\ SendIdle
    /\ RunIdle
    /\ SchedIdle
    /\ NoFiles
    /\ CmdIdle

SpecFetch == FetchInit /\ [][FetchNext]_vars

-----------------------------------------------------------------------------
(* Claims about the grouping step.                                         *)

Range(s) == {s[i] : i \in 1..Len(s)}

\* The brands that have a deal, each once, in the order of their first deal.
FirstSeenBrands ==
    LET IsFirst(i) == \A j \in 1..(i - 1) : BrandKey(deals[j]) # BrandKey(deals[i])
        firsts == SelectSeq([i \in 1..Len(deals) |-> i], IsFirst)
    IN  [k \in 1..Len(firsts) |-> BrandKey(deals[firsts[k]])]

\* The members of target_brands that have a deal, in the order of target_brands.
PreferredWithDeals ==
    LET HasDeal(b) == \E i \in 1..Len(deals) : BrandKey(deals[i]) = b
    IN  SelectSeq(target_brands, HasDeal)

\* The brands with a deal that target_brands does not name, in first-seen order.
RemainingBrands ==
    LET NotPreferred(b) == b \notin Range(target_brands)
    IN  SelectSeq(FirstSeenBrands, NotPreferred)

IsIncreasing(s) == \A i, j \in 1..Len(s) : i < j => s[i] < s[j]

\* C1: the brand order is the preferred brands that have a deal, in the order
\* of the preferred list, followed by the other brands in the order of their
\* first deal; and each bucket keeps its deals in their order in the deal list.
C1_GroupingOrder ==
    gpc = "grouped" =>
        /\ ordered_brands = PreferredWithDeals \o RemainingBrands
        /\ \A k \in 1..Len(brand_map) :
              /\ IsIncreasing(brand_map[k].deals)
              /\ \A n \in 1..Len(brand_map[k].deals) :
                    BrandKey(deals[brand_map[k].deals[n]]) = brand_map[k].brand

\* The case of the spec's example: a preferred brand whose first deal comes
\* after another brand's deal is put first, a brand outside the preferred list
\* follows, and one bucket holds two deals that were not adjacent.
C1_Witness ==
    /\ gpc = "grouped"
    /\ Len(PreferredWithDeals) >= 1
    /\ Len(RemainingBrands) >= 1
    /\ ordered_brands[1] # FirstSeenBrands[1]
    /\ \E k \in 1..Len(brand_map) : brand_map[k].deals = <<1, 3>>

\* A raw brand that is missing, empty or all whitespace.
IsBlankBrand(deal) ==
    \/ "brand" \notin DOMAIN deal
    \/ \A n \in 1..Len(deal.brand) : deal.brand[n] \in Whitespace

\* C2: the buckets partition the deal list, no bucket key is the empty string
\* (a deal without a usable brand is in the placeholder bucket), and no bucket
\* is empty.
C2_BucketsPartition ==
    gpc = "grouped" =>
        /\ \A i \in 1..Len(deals) :
              Cardinality({<<k, n>> \in (1..Len(brand_map)) \X (1..Len(deals)) :
                              /\ n <= Len(brand_map[k].deals)
                              /\ brand_map[k].deals[n] = i}) = 1
        /\ \A k \in 1..Len(brand_map) :
              /\ brand_map[k].brand # <<>>
              /\ brand_map[k].deals # <<>>
              /\ Range(brand_map[k].deals) \subseteq 1..Len(deals)
              /\ \A j \in 1..Len(brand_map) : j # k => brand_map[j].brand # brand_map[k].brand
        /\ \A i \in 1..Len(deals) :
              IsBlankBrand(deals[i]) =>
                  \E k \in 1..Len(brand_map) :
                      /\ brand_map[k].brand = OTHER_BRAND
                      /\ i \in Range(brand_map[k].deals)

\* A deal without the brand key, one with an empty brand and one with a blank
\* brand share the placeholder bucket.
C2_Witness ==
    /\ gpc = "grouped"
    /\ \E i, j, l \in 1..Len(deals) :
          /\ "brand" \notin DOMAIN deals[i]
          /\ "brand" \in DOMAIN deals[j] /\ deals[j].brand = <<>>
          /\ "brand" \in DOMAIN deals[l] /\ deals[l].brand = <<" ">>
    /\ Len(brand_map) = 1
    /\ brand_map[1].brand = OTHER_BRAND

-----------------------------------------------------------------------------
(* Claims about the poster.                                                *)

\* Bottom edge of the k-th card: the first card starts below the header and
\* its top margin, each next one a card and a gap lower.
CardBottom(k) == header_height + content_top + (k - 1) * (card_height + card_gap) + card_height

\* The largest k <= n whose k-th card, with the overflow margin, fits the canvas.
Capacity(n) ==
    CHOOSE k \in 0..n :
        /\ k > 0 => CardBottom(k) + overflow_margin <= height
        /\ \A m \in (k + 1)..n : CardBottom(m) + overflow_margin > height

\* C3: once the loop is over, the cards drawn are the first k deals in their
\* order, k the largest count that fits (5, or all N when N < 5); the loop was
\* left without an error and no iteration touched a later deal.
C3_PaginationCutoff ==
    (ppc \in {"footer", "saved"} \/ (ppc = "raised" /\ poster_deals # <<>>)) =>
        LET N == Len(poster_deals)
            k == Capacity(N)
        IN  /\ k = IF N < 5 THEN N ELSE 5
            /\ Len(cards) = k
            /\ \A i \in 1..k : cards[i].deal = i /\ cards[i].bottom = CardBottom(i)
            /\ idx = k

\* A list longer than the page: the loop was left by the break, with deals
\* that got no card.
C3_Witness ==
    /\ ppc = "footer"
    /\ Len(poster_deals) > Len(cards)
    /\ Len(cards) = 5

\* The first two characters of the deal's brand name.
BrandInitials(deal) ==
    LET brand == strip(deal.brand)
    IN  IF Len(brand) <= 2 THEN brand ELSE <<brand[1], brand[2]>>

\* The deal's image URL does not start with http, or names a placeholder domain.
NotFetchable(deal) ==
    LET url == strip(deal.main_image_url)
    IN  \/ url = <<>>
        \/ url[1] \notin {"http://", "https://"}
        \/ \E n \in 1..Len(url) : url[n] \in {"example.com", "example.org"}

\* The cards of the deals whose image is fetched, in drawing order.
FetchingCards == SelectSeq(cards, LAMBDA c : ~NotFetchable(poster_deals[c.deal]))

-----------------------------------------------------------------------------
(* Claims about the delivery fan-out.                                      *)

PrimaryAttempts == SelectSeq(sent, LAMBDA a : a.stage = "primary")

\* C4: a send call never raises, and once it is over its send attempts (the
\* image or text send proper) are one per entry of target_groups, in the order
\* of the configuration, whatever each attempt's outcome was.
C4_EveryDestinationAttempted ==
    /\ exc = "none"
    /\ call # NoCall => ENABLED SendNext
    /\ call = NoCall =>
          /\ Len(PrimaryAttempts) = Len(target_groups)
          /\ \A k \in 1..Len(target_groups) :
                /\ PrimaryAttempts[k].group = k
                /\ PrimaryAttempts[k].origin = _build_group_origin(target_groups[k])

\* The spec's example: the send to the first destination failed, the second
\* destination was attempted all the same, and the call returned.
C4_Witness ==
    /\ call = NoCall
    /\ Len(target_groups) = 2
    /\ Len(PrimaryAttempts) = 2
    /\ ~PrimaryAttempts[1].ok
    /\ PrimaryAttempts[2].ok
    /\ PrimaryAttempts[1].origin # PrimaryAttempts[2].origin

\* The caption as the fallback text is said to carry it: nothing when the
\* caller passed no caption.
CaptionText(v) == IF v.t = "None" THEN <<>> ELSE v.s

IsImageChain(chain) == \E n \in 1..Len(chain) : chain[n].type = "Image"

\* C5: a failed image send is followed by exactly one text-only send to the
\* same destination, whose text is the caption (nothing when there is none)
\* and the apology; whatever that send does, the next destination is tried.
C5_FallbackAfterImageFailure ==
    /\ exc = "none"
    /\ \A n \in 1..Len(sent) :
          (sent[n].stage = "primary" /\ IsImageChain(sent[n].chain) /\ ~sent[n].ok) =>
              \/ n = Len(sent) /\ call.stage = "fallback"
              \/ /\ n < Len(sent)
                 /\ sent[n + 1].stage = "fallback"
                 /\ sent[n + 1].origin = sent[n].origin
                 /\ sent[n + 1].chain = <<Plain(CaptionText(sent[n].caption) \o APOLOGY)>>
                 /\ n + 2 <= Len(sent) => sent[n + 2].stage = "primary"
    /\ \A n \in 1..Len(sent) :
          sent[n].stage = "fallback" =>
              n > 1 /\ sent[n - 1].stage = "primary" /\ ~sent[n - 1].ok
    /\ call = NoCall => Len(PrimaryAttempts) = Len(target_groups)

-----------------------------------------------------------------------------
(* Claims about the timer-triggered run.                                   *)

\* C9: whatever fails inside a scheduled run, _scheduled_task_entry returns:
\* nothing is raised to the scheduler, and the run never stops half-way.
C9_NothingReachesScheduler ==
    /\ entry # "raised"
    /\ entry = "running" => ENABLED RunNext

\* A run in which a render, a text send, an image send and a fallback send
\* all failed, and which returned.
C9_Witness ==
    /\ entry = "returned"
    /\ \E n \in 1..Len(renders) : ~renders[n].ok
    /\ \E n \in 1..Len(sent) : ~sent[n].ok /\ sent[n].stage = "primary" /\ ~IsImageChain(sent[n].chain)
    /\ \E n \in 1..Len(sent) : ~sent[n].ok /\ IsImageChain(sent[n].chain)
    /\ \E n \in 1..Len(sent) : ~sent[n].ok /\ sent[n].stage = "fallback"

\* A run whose grouping raised (a preferred brand without a hash) and whose
\* entry point caught it.
C9_WitnessUnexpected ==
    /\ entry = "returned"
    /\ fetched = "returned" /\ deals # <<>> /\ gpc # "grouped"

SentChains == {sent[n].chain : n \in 1..Len(sent)}

\* C10: every brand of the brand order gets its render attempt, whatever the
\* earlier renders did; every poster that was rendered is sent to every
\* destination; the all-failed notice is sent only if no render succeeded.
C10_RenderFailuresIsolated ==
    /\ TextChain(MSG_ALL_FAILED) \in SentChains => \A n \in 1..Len(renders) : ~renders[n].ok
    /\ (entry = "returned" /\ gpc = "grouped") =>
          /\ [n \in 1..Len(renders) |-> renders[n].brand] = ordered_brands
          /\ \A n \in 1..Len(renders) :
                renders[n].ok =>
                    \A g \in 1..Len(target_groups) :
                        \E m \in 1..Len(sent) :
                            /\ sent[m].group = g
                            /\ sent[m].origin = _build_group_origin(target_groups[g])
                            /\ sent[m].chain = <<CompImage(PosterPath(renders[n].brand))>>

\* The first brand's render failed, the second brand was rendered and its
\* poster went to both destinations.
C10_Witness ==
    /\ entry = "returned"
    /\ Len(renders) = 2
    /\ ~renders[1].ok
    /\ renders[2].ok
    /\ Len(target_groups) = 2
    /\ Cardinality({m \in 1..Len(sent) : IsImageChain(sent[m].chain)}) = 2

\* The text notices an entry of target_groups was sent, and the posters.
TextNoticesTo(g) ==
    {m \in 1..Len(sent) : sent[m].group = g /\ ~IsImageChain(sent[m].chain)}
PosterSends == {m \in 1..Len(sent) : IsImageChain(sent[m].chain)}

\* The run failed totally: the fetch raised, or it returned deals and the
\* render of every brand group raised.
TotalFailure ==
    \/ fetched = "raised"
    \/ /\ gpc = "grouped"
       /\ Len(renders) = Len(ordered_brands)
       /\ \A n \in 1..Len(renders) : ~renders[n].ok

\* C11: a scheduled run that failed totally has sent each destination exactly
\* one text notice, and no poster.
C11_OneNoticeOnTotalFailure ==
    (entry = "returned" /\ TotalFailure) =>
        /\ \A g \in 1..Len(target_groups) : Cardinality(TextNoticesTo(g)) = 1
        /\ PosterSends = {}

DistinctPaths(rs) ==
    \A m, n \in 1..Len(rs) :
        (rs[m].ok /\ rs[n].ok /\ rs[m].brand # rs[n].brand) =>
            PosterPath(rs[m].brand) # PosterPath(rs[n].brand)

\* C12: within one run, the renders of two different brand groups write to
\* two different output paths (stated for the renders that saved a file).
C12_DistinctPathsPerBrand ==
    /\ DistinctPaths(renders)
    /\ DistinctPaths(cmd.renders)

\* C13: whatever the interleaving of a command-triggered and a timer-triggered
\* run, every poster a run sends is the complete file that run saved.
C13_RunsShareNoState ==
    /\ \A m \in 1..Len(sent) :
          IsImageChain(sent[m].chain) =>
              sent[m].read.by = "timer" /\ sent[m].read.complete
    /\ \A m \in 1..Len(cmd.out) :
          cmd.out[m].type = "image" =>
              cmd.out[m].read.by = "cmd" /\ cmd.out[m].read.complete

Occurrences(seq, v) == Cardinality({i \in 1..Len(seq) : seq[i] = v})
RenderedBrands(rs) == [n \in 1..Len(rs) |-> rs[n].brand]

\* C17: in a run of either kind, every brand that has a deal is once in the
\* brand order, so it gets one render attempt, and a destination gets at most
\* one poster per brand group.
C17_OncePerBrand ==
    /\ gpc = "grouped" =>
          /\ \A b \in KeySet(brand_map) : Occurrences(ordered_brands, b) = 1
          /\ \A b \in KeySet(brand_map) : Occurrences(RenderedBrands(renders), b) <= 1
          /\ entry = "returned" =>
                \A b \in KeySet(brand_map) : Occurrences(RenderedBrands(renders), b) = 1
          /\ \A g \in 1..Len(target_groups) :
                Cardinality({m \in PosterSends : sent[m].group = g})
                    <= Cardinality(KeySet(brand_map))
    /\ cmd.pc \in {"render", "saving", "yield", "done"} =>
          /\ \A b \in KeySet(cmd.brand_map) : Occurrences(cmd.ordered_brands, b) = 1
          /\ \A b \in KeySet(cmd.brand_map) :
                Occurrences(RenderedBrands(cmd.renders), b) <= 1
          /\ Cardinality({m \in 1..Len(cmd.out) : cmd.out[m].type = "image"})
                <= Cardinality(KeySet(cmd.brand_map))

\* The posters of the run, in the grouped brand order, and the order their
\* sends are due in: poster by poster, each to every destination in turn.
RenderedPosters ==
    LET ok == SelectSeq(renders, LAMBDA r : r.ok)
    IN  [n \in 1..Len(ok) |-> PosterPath(ok[n].brand)]
PosterSendsDue ==
    LET G == Len(target_groups)
    IN  [n \in 1..(Len(RenderedPosters) * G) |->
            [file |-> RenderedPosters[((n - 1) \div G) + 1], group |-> ((n - 1) % G) + 1]]
PosterSendsMade ==
    LET made == SelectSeq(sent, LAMBDA a : IsImageChain(a.chain))
    IN  [n \in 1..Len(made) |-> [file |-> made[n].chain[Len(made[n].chain)].file, group |-> made[n].group]]
IntroSends == {m \in 1..Len(sent) : sent[m].chain = TextChain(MSG_INTRO)}

\* C18: the intro is sent only after a successful render and goes to every
\* destination before the first poster; the posters go out in the grouped
\* brand order, each to every destination before the next; a run without
\* destinations fetches, renders and sends nothing.
C18_IntroThenPostersInOrder ==
    /\ IntroSends # {} => \E n \in 1..Len(renders) : renders[n].ok
    /\ \A m \in PosterSends :
          \A g \in 1..Len(target_groups) :
              \E k \in IntroSends : k < m /\ sent[k].group = g
    /\ Len(PosterSendsMade) <= Len(PosterSendsDue)
    /\ PosterSendsMade = SubSeq(PosterSendsDue, 1, Len(PosterSendsMade))
    /\ (entry = "returned" /\ IntroSends # {}) => PosterSendsMade = PosterSendsDue
    /\ target_groups = <<>> => fetched = "no" /\ renders = <<>> /\ sent = <<>>

\* A returned run that sent two posters to two destinations.
C18_Witness ==
    /\ entry = "returned"
    /\ Len(target_groups) = 2
    /\ Len(PosterSendsMade) = 4
    /\ PosterSendsMade[1].file # PosterSendsMade[3].file

\* A returned run without destinations.
C18_WitnessNoDestination ==
    /\ entry = "returned"
    /\ target_groups = <<>>

-----------------------------------------------------------------------------
(* Claims about fetch_today_deals.                                         *)

\* The selected source's own required fields are absent or invalid.
NoUsableSource ==
    LET sel == Selector(source.data_source)
    IN  \/ sel \notin {<<"rss">>, <<"api">>}
        \/ sel = <<"rss">> /\ RssRequested(OrList(source.rss_urls)) = <<>>
        \/ sel = <<"api">> /\ ~startswith_http(strip(source.api_url))

\* C14: when the selected source's required fields are absent or invalid,
\* fetch_today_deals returns the mock deal set, never an empty list.
C14_MockFallback ==
    (fetching.pc = "returned" /\ NoUsableSource) =>
        /\ fetching.by = "mock"
        /\ fetching.deals = _fetch_mock_deals(target_brands)
        /\ fetching.deals # <<>>

-----------------------------------------------------------------------------
(* Claims about the shared scheduler.                                      *)

JobsWithId(id) == {k \in 1..Len(jobs) : jobs[k].id = id}

\* C6: the scheduler never holds two jobs under one id, and the job of a live
\* instance carries the trigger time of that instance's latest registration:
\* a registration under an id that is present replaces the job.
C6_OneJobPerId ==
    /\ \A i, j \in 1..Len(jobs) :
          (jobs[i].id = jobs[j].id /\ jobs[i].sched = jobs[j].sched) => i = j
    /\ \A a \in Addresses :
          instances[a].state = "active" =>
              /\ Cardinality(JobsWithId(JobId(a))) = 1
              /\ \A k \in JobsWithId(JobId(a)) :
                    <<jobs[k].hour, jobs[k].minute>> = instances[a].trigger

\* An instance registered a second time, with another time: the job found
\* under its id had the old time, the one job there now has the new one.
C6_Witness ==
    \E a \in Addresses :
        /\ instances[a].state = "active"
        /\ instances[a].replaced = "other"
        /\ Cardinality(JobsWithId(JobId(a))) = 1
        /\ Len(jobs) = 2

\* C7: a terminate call of the instance at address a leaves exactly the jobs
\* that are not under a's id, each unchanged and in place, and raises nothing;
\* with no job under a's id the jobs are as before.
C7_TerminateRemovesOwnJob ==
    [][\A a \in Addresses :
          instances'[a].tflip # instances[a].tflip =>
              /\ jobs' = SelectSeq(jobs, LAMBDA j : j.id # JobId(a))
              /\ ~HasJob(jobs, _scheduler, JobId(a)) => jobs' = jobs
              /\ exc' = "none"]_vars

\* An instance terminated twice since its activation (the second call found
\* no job) next to a live
\* instance that still has its job.
C7_Witness ==
    \E a, b \in Addresses :
        /\ a # b
        /\ instances[a].state = "terminated"
        /\ instances[a].tflip = FALSE
        /\ instances[b].state = "active"
        /\ JobsWithId(JobId(a)) = {}
        /\ Cardinality(JobsWithId(JobId(b))) = 1
        /\ exc = "none"

\* C8: one scheduler object at most is ever created, the global names it from
\* the first call on, and every job is held by it.
C8_OneScheduler ==
    /\ schedulers <= 1
    /\ _scheduler = schedulers
    /\ (\E a \in Addresses : instances[a].state # "free") => _scheduler = 1
    /\ \A k \in 1..Len(jobs) : jobs[k].sched = 1

\* Two activations, a re-registration and a terminate later there is still the
\* one scheduler.
C8_Witness ==
    /\ schedulers = 1
    /\ \E a, b \in Addresses :
          /\ a # b
          /\ instances[a].state = "terminated"
          /\ instances[b].state = "active"
          /\ instances[b].replaced # "none"

\* Some schedule strings and what _parse_schedule_time makes of them.
\* The decimal numeral of n, 0 <= n <= 99, and a digit string without its
\* leading zeros.
Numeral(n) ==
    IF n < 10 THEN <<Digits[n + 1]>> ELSE <<Digits[(n \div 10) + 1], Digits[(n % 10) + 1]>>

RECURSIVE DropLeadingZeros(_)
DropLeadingZeros(body) ==
    IF Len(body) > 1 /\ Head(body) = "0" THEN DropLeadingZeros(Tail(body)) ELSE body

\* `text` is an integer whose value is n (n >= 0): blanks around it, a minus
\* sign only before zero.
Denotes(text, n) ==
    LET t == strip(text)
        minus == t # <<>> /\ Head(t) = "-"
        body == IF minus THEN Tail(t) ELSE t
    IN  /\ body # <<>>
        /\ \A k \in 1..Len(body) : body[k] \in {"0", "1", "2", "3", "4", "5", "6", "7", "8", "9"}
        /\ DropLeadingZeros(body) = Numeral(n)
        /\ minus => n = 0

\* The time a schedule string stands for: its two colon-separated integers if
\* it is made of exactly two, in range; the default otherwise.
TimeOf(st) ==
    LET t == strip(st)
        colons == {k \in 1..Len(t) : t[k] = ":"}
        at == CHOOSE k \in colons : TRUE
        left == SubSeq(t, 1, at - 1)
        right == SubSeq(t, at + 1, Len(t))
    IN  IF /\ Cardinality(colons) = 1
           /\ \E h \in 0..23 : Denotes(left, h)
           /\ \E m \in 0..59 : Denotes(right, m)
        THEN <<CHOOSE h \in 0..23 : Denotes(left, h), CHOOSE m \in 0..59 : Denotes(right, m)>>
        ELSE <<8, 0>>

\* C16: whatever the schedule string, activation raises nothing and registers
\* the job at a valid time: the time the string stands for, or 08:00.
C16_ScheduleTimeAlwaysValid ==
    \A a \in Addresses :
        instances[a].state = "active" =>
            /\ exc = "none"
            /\ instances[a].trigger \in (0..23) \X (0..59)
            /\ instances[a].trigger = TimeOf(instances[a].schedule_time)
            /\ TriggerOf(jobs, _scheduler, JobId(a)) = instances[a].trigger

\* An instance activated with a string that is no time (the default was
\* registered), and one activated with a time other than the default.
C16_Witness ==
    \E a \in Addresses :
        /\ instances[a].state = "active"
        /\ instances[a].schedule_time = <<"2", "4", ":", "0">>
        /\ instances[a].trigger = <<8, 0>>

C16_WitnessParsed ==
    \E a \in Addresses :
        /\ instances[a].state = "active"
        /\ instances[a].schedule_time = <<" ", "2", "3", ":", "6">>
        /\ instances[a].trigger = <<23, 6>>

ParseExamples ==
    /\ _parse_schedule_time(<<"0", "7", ":", "3", "0">>).time = <<7, 30>>
    /\ _parse_schedule_time(<<" ", "9", ":", "0", "5", " ">>).time = <<9, 5>>
    /\ _parse_schedule_time(<<"2", "5", ":", "0", "0">>).time = <<8, 0>>
    /\ _parse_schedule_time(<<"1", ":", "2", ":", "3">>).time = <<8, 0>>
    /\ _parse_schedule_time(<<>>).time = <<8, 0>>
    /\ _parse_schedule_time(<<"-", "1", ":", "0">>).time = <<8, 0>>
    /\ _parse_schedule_time(<<"+", "1", " ", ":", "1", "_", "0">>).time = <<1, 10>>
    /\ _parse_schedule_time(<<":", "5">>).time = <<8, 0>>

====
